---------------------------- MODULE Spec2Model ----------------------------
(***************************************************************************)
(* A model of the arXiv scraper: the ingestion script (main.py), the       *)
(* scoring script (evaluator.py) and the web backend (app.py).             *)
(*                                                                         *)
(* Conventions.                                                            *)
(*  - A date is a day number.  A date string in the format %Y-%m-%d is the *)
(*    record [iso |-> TRUE, day |-> d]; any other text is                  *)
(*    [iso |-> FALSE, day |-> 0], on which the date parser raises.         *)
(*  - Python's None / pandas' NaN is the empty sequence << >>, a present   *)
(*    value v is << v >>.                                                  *)
(*  - The results folder holds arxiv_papers.csv, arxiv_papers_evaluated    *)
(*    .csv, arxiv_papers_evaluated_evaluated.csv, ...: file number d is    *)
(*    the base name followed by d "_evaluated" suffixes.                   *)
(*  - A row keeps the columns id, categories, abstract and created; title, *)
(*    doi, updated and authors are carried along by the code like these    *)
(*    and are left out.  score and reasoning are the two annotation        *)
(*    columns; a file's "columns" says whether it has them.                *)
(*  - Scores are whole numbers: every comparison the code makes on a score *)
(*    is an order comparison with 0, 1 or 10.                              *)
(*                                                                         *)
(* Four specifications, one for each program that runs on its own, and two *)
(* for a script running while the backend answers queries:                 *)
(*  - SpecIngest: runs of main.py, one after the other, while days pass;   *)
(*  - SpecScore: runs of evaluator.py, one after the other, on a results   *)
(*    folder that holds a base snapshot;                                   *)
(*  - SpecQuery: GET /api/papers on the results folders the two scripts    *)
(*    leave;                                                               *)
(*  - SpecTasks: the start endpoints and background tasks of app.py.  A    *)
(*    background task runs its script as a child process; here the child   *)
(*    is what run_scraper and run_evaluator see of it, its exit;           *)
(*  - SpecServe and SpecServeScore: GET /api/papers while main.py, or      *)
(*    evaluator.py, runs.  Here a df.to_csv is the steps a reader of the   *)
(*    file can tell apart: the file opened, filled part by part, closed.   *)
(*    A script that runs alone shows none of them (MainSave, EvalSave).    *)
(***************************************************************************)
EXTENDS Integers, Sequences, FiniteSets

VARIABLES
    today,            \* the calendar day (datetime.now().date())
    last_update_file, \* last_update.txt
    files,            \* results/*.csv, by file number
    mtime,            \* st_mtime of each file of results/
    sproc,            \* the process running main.py
    eproc,            \* the process running evaluator.py
    task_status,      \* app.py: task_status
    pending,          \* app.py: background tasks added and not yet begun
    jobs,             \* app.py: background tasks that have begun
    response          \* app.py: the last HTTP response

vars == << today, last_update_file, files, mtime, sproc, eproc,
           task_status, pending, jobs, response >>

-----------------------------------------------------------------------------
(* Bounds of the model *)

\* days the initial watermark may lie further back than the lookback window
MaxBack == 3
\* midnights that pass during a behaviour
MaxTicks == 1
\* runs of main.py in a behaviour
MaxRuns == 2
\* records one category fetch returns at most
MaxPerFetch == 1
\* rows of a base snapshot present at the start of a scoring behaviour
MaxPapers == 2
\* the largest number given as --rows
MaxLimit == 2
\* completion calls in a behaviour
MaxCalls == 2
\* the largest file number written ("_evaluated" suffixes)
MaxDepth == 2
\* the largest page number requested
MaxPage == 3
\* the largest page size requested
MaxPerPage == 2
\* background tasks added and not yet finished
MaxJobs == 3

-----------------------------------------------------------------------------
(* Program constants *)

CATEGORIES == << "cs", "eess", "stat" >>
MAX_DAYS == 7

BaseColumns == {"id", "categories", "abstract", "created"}
ScoreColumns == {"score", "reasoning"}

-----------------------------------------------------------------------------
(* Values *)

None == << >>
Some(v) == << v >>

Max(a, b) == IF a >= b THEN a ELSE b
Min(a, b) == IF a <= b THEN a ELSE b

Iso(d) == [iso |-> TRUE, day |-> d]
Garbage == [iso |-> FALSE, day |-> 0]

NoTextFile == [exists |-> FALSE, text |-> Garbage]
TextFile(t) == [exists |-> TRUE, text |-> t]

NoCsv == [exists |-> FALSE, columns |-> {}, rows |-> << >>]
Csv(cols, rows) == [exists |-> TRUE, columns |-> cols, rows |-> rows]

FileNames == 0 .. MaxDepth
BaseFile == 0
EvaluatedFile == 1

\* a raw paper record as the fetch adapter returns it, as a row without annotation
PaperRecord(id, cat, abs, created) ==
    [id |-> id, categories |-> cat, abstract |-> abs, created |-> created,
     score |-> None, reasoning |-> << >>]

RECURSIVE Concat(_)
Concat(ss) == IF ss = << >> THEN << >> ELSE Head(ss) \o Concat(Tail(ss))

\* the files of results/ that exist
CsvFiles == {f \in FileNames : files[f].exists}

\* a write to results/ gives the file the newest modification time
NewMtime == 1 + CHOOSE m \in {mtime[f] : f \in FileNames} :
                    \A f \in FileNames : mtime[f] <= m

\* df.to_csv(path) as a reader of results/ sees it. The file is opened for
\* writing at its final path, which leaves it with no bytes; the header and
\* the rows reach it in order as the writer's buffer is flushed; nothing is
\* written to another path and renamed.
Truncated == [exists |-> TRUE, columns |-> {}, rows |-> << >>]

to_csv_open(fs, path) == [fs EXCEPT ![path] = Truncated]

to_csv_flush(fs, path, df) ==
    [fs EXCEPT ![path] =
       IF fs[path].columns = {}
       THEN Csv(df.columns, << >>)
       ELSE Csv(df.columns, SubSeq(df.rows, 1, Len(fs[path].rows) + 1))]

\* every byte of df has reached the file
to_csv_complete(fs, path, df) == fs[path] = Csv(df.columns, df.rows)

\* the modification times after a write to path: path is the newest file
Touch(path) ==
    IF \A f \in FileNames \ {path} : mtime[f] < mtime[path]
    THEN mtime
    ELSE [mtime EXCEPT ![path] = NewMtime]

\* pd.read_csv raises EmptyDataError on a file without a header line
EmptyDataError(file) == file.exists /\ file.columns = {}

-----------------------------------------------------------------------------
(* main.py *)

\* dateutil's parser.parse(text).date(): raises on text that is no date
ParseRaises(text) == ~ text.iso
ParseDate(text) == text.day

\* strftime("%Y-%m-%d")
Strftime(d) == Iso(d)

\* a faulty variant: the watermark, however old
FromDateUnbounded(last_update, now) == last_update
\* the lower end of the window: the watermark, but at most MAX_DAYS back
FromDate(last_update, now) == Max(last_update, now - MAX_DAYS)

get_date_range(now, file) ==
    LET last_update ==
            IF file.exists
            THEN IF ParseRaises(file.text)
                 THEN now - MAX_DAYS
                 ELSE ParseDate(file.text)
            ELSE now - MAX_DAYS
    IN  [date_from |-> Strftime(FromDate(last_update, now)),
         date_until |-> Strftime(now)]

\* what arxivscraper.Scraper(...).scrape() does for one category: it raises,
\* or returns up to MaxPerFetch records of the category, created in the window
FetchFails == [raises |-> TRUE, papers |-> << >>]
FetchReturns(papers) == [raises |-> FALSE, papers |-> papers]
FetchOutcomes(ci, date_until) ==
    {FetchFails} \cup
    {FetchReturns([k \in 1 .. n |->
                    PaperRecord(ci * 10 + k, CATEGORIES[ci], "text", date_until.day)]) :
        n \in 0 .. MaxPerFetch}

\* a faulty variant: the scraper's exception is let through
scrape_arxiv_uncaught(outcome) ==
    [raises |-> outcome.raises, papers |-> outcome.papers]
\* scrape_arxiv: the scraper's exception is caught and becomes no papers
scrape_arxiv(outcome) ==
    IF outcome.raises
    THEN [raises |-> FALSE, papers |-> << >>]
    ELSE [raises |-> FALSE, papers |-> outcome.papers]

\* a save that appends to the rows the base file already holds
save_results_append(all_papers, fs) ==
    IF all_papers = << >>
    THEN fs
    ELSE [fs EXCEPT ![BaseFile] = Csv(BaseColumns, fs[BaseFile].rows \o all_papers)]

\* save_results: nothing is written for an empty list
save_results(all_papers, fs) ==
    IF all_papers = << >>
    THEN fs
    ELSE [fs EXCEPT ![BaseFile] = Csv(BaseColumns, all_papers)]

update_last_update(date) == TextFile(date)

SprocIdle ==
    [pc |-> "idle", runs |-> 0, date_from |-> Garbage, date_until |-> Garbage,
     ci |-> 1, all_papers |-> << >>, outcomes |-> << >>]

\* main(): ensure_directories_exist, get_date_range
MainGetDateRange ==
    /\ sproc.pc \in {"idle", "done"}
    /\ sproc.runs < MaxRuns
    /\ LET r == get_date_range(today, last_update_file)
       IN  sproc' = [pc |-> "scrape", runs |-> sproc.runs + 1,
                     date_from |-> r.date_from, date_until |-> r.date_until,
                     ci |-> 1, all_papers |-> << >>, outcomes |-> << >>]
    /\ UNCHANGED << today, last_update_file, files, mtime, eproc,
                    task_status, pending, jobs, response >>

\* main(): one turn of the loop over CATEGORIES
MainScrape ==
    /\ sproc.pc = "scrape"
    /\ \E outcome \in FetchOutcomes(sproc.ci, sproc.date_until) :
         LET r == scrape_arxiv(outcome)
         IN  sproc' =
               IF r.raises
               THEN [sproc EXCEPT !.pc = "crashed",
                                  !.outcomes = Append(@, outcome)]
               ELSE [sproc EXCEPT
                       !.pc = IF sproc.ci = Len(CATEGORIES) THEN "save" ELSE "scrape",
                       !.ci = @ + 1,
                       !.all_papers = @ \o r.papers,
                       !.outcomes = Append(@, outcome)]
    /\ UNCHANGED << today, last_update_file, files, mtime, eproc,
                    task_status, pending, jobs, response >>

\* main(): save_results(all_papers)
MainSave ==
    /\ sproc.pc = "save"
    /\ files' = save_results(sproc.all_papers, files)
    /\ mtime' = IF sproc.all_papers = << >>
                THEN mtime
                ELSE [mtime EXCEPT ![BaseFile] = NewMtime]
    /\ sproc' = [sproc EXCEPT !.pc = "update"]
    /\ UNCHANGED << today, last_update_file, eproc,
                    task_status, pending, jobs, response >>

\* main(): save_results(all_papers) up to the opening of the CSV file
MainSaveOpen ==
    /\ sproc.pc = "save"
    /\ IF sproc.all_papers = << >>
       THEN /\ sproc' = [sproc EXCEPT !.pc = "update"]
            /\ UNCHANGED << files, mtime >>
       ELSE /\ files' = to_csv_open(files, BaseFile)
            /\ mtime' = Touch(BaseFile)
            /\ sproc' = [sproc EXCEPT !.pc = "write"]
    /\ UNCHANGED << today, last_update_file, eproc,
                    task_status, pending, jobs, response >>

\* save_results: df.to_csv(csv_file), the next part of the file
MainSaveFlush ==
    /\ sproc.pc = "write"
    /\ ~ to_csv_complete(files, BaseFile, Csv(BaseColumns, sproc.all_papers))
    /\ files' = to_csv_flush(files, BaseFile, Csv(BaseColumns, sproc.all_papers))
    /\ mtime' = Touch(BaseFile)
    /\ UNCHANGED << today, last_update_file, sproc, eproc,
                    task_status, pending, jobs, response >>

\* save_results: df.to_csv(csv_file) returns
MainSaveClose ==
    /\ sproc.pc = "write"
    /\ to_csv_complete(files, BaseFile, Csv(BaseColumns, sproc.all_papers))
    /\ sproc' = [sproc EXCEPT !.pc = "update"]
    /\ UNCHANGED << today, last_update_file, files, mtime, eproc,
                    task_status, pending, jobs, response >>

\* main(): update_last_update(date_until)
MainUpdate ==
    /\ sproc.pc = "update"
    /\ last_update_file' = update_last_update(sproc.date_until)
    /\ sproc' = [sproc EXCEPT !.pc = "done"]
    /\ UNCHANGED << today, files, mtime, eproc,
                    task_status, pending, jobs, response >>

\* midnight passes
Today0 == MAX_DAYS + MaxBack
Tick ==
    /\ today < Today0 + MaxTicks
    /\ today' = today + 1
    /\ UNCHANGED << last_update_file, files, mtime, sproc, eproc,
                    task_status, pending, jobs, response >>

-----------------------------------------------------------------------------
(* evaluator.py *)

\* a reply of the completion service, by what the code reads of it:
\*   kind       "error": the call raises; "json": json.loads decodes the text;
\*              "text": json.loads raises JSONDecodeError
\*   object     the decoded JSON is an object (has .get)
\*   score_key  "absent": no "score" key (json), no number after a score label
\*              (text); "number": a number, score_val; "nan": the JSON number
\*              NaN; "null": a value float() rejects
\*   reasoning  the reasoning the reply carries, None when it carries none
ApiError ==
    [kind |-> "error", object |-> FALSE, score_key |-> "absent", score_val |-> 0,
     reasoning |-> None, error |-> "completion call failed"]
JsonReply(key, val, reasoning) ==
    [kind |-> "json", object |-> TRUE, score_key |-> key, score_val |-> val,
     reasoning |-> reasoning, error |-> ""]
JsonNotObject ==
    [kind |-> "json", object |-> FALSE, score_key |-> "absent", score_val |-> 0,
     reasoning |-> None, error |-> ""]
TextReply(key, val, reasoning) ==
    [kind |-> "text", object |-> FALSE, score_key |-> key, score_val |-> val,
     reasoning |-> reasoning, error |-> ""]

Replies ==
    { ApiError,
      JsonReply("number", 7, Some("x")),
      JsonReply("number", 13, Some("x")),
      JsonReply("number", -1, None),
      JsonReply("absent", 0, Some("x")),
      JsonReply("null", 0, Some("x")),
      JsonReply("nan", 0, Some("x")),
      JsonNotObject,
      TextReply("number", 7, Some("Strong market fit")),
      TextReply("absent", 0, None) }

\* a faulty variant: no upper limit
ClampNoUpper(score) == Max(1, score)
\* max(1, min(10, score))
Clamp(score) == Max(1, Min(10, score))

Annotation(score, reasoning) == [score |-> score, reasoning |-> reasoning]

evaluate_abstract(reply) ==
    IF reply.kind = "error"
    THEN Annotation(0, << "Error: ", reply.error >>)
    ELSE IF reply.kind = "json"
    THEN IF ~ reply.object
         THEN Annotation(0, << "Error: ", "no attribute 'get'" >>)
         ELSE IF reply.score_key = "null"
         THEN Annotation(0, << "Error: ", "float() argument" >>)
         ELSE Annotation(
                \* nan < 10 is false, so min(10, nan) is 10
                IF reply.score_key = "nan"
                THEN Max(1, 10)
                ELSE Clamp(IF reply.score_key = "absent" THEN 0 ELSE reply.score_val),
                IF reply.reasoning = None
                THEN << "No reasoning provided" >>
                ELSE reply.reasoning)
    ELSE Annotation(
           Clamp(IF reply.score_key = "number" THEN reply.score_val ELSE 0),
           IF reply.reasoning = None
           THEN << "Unable to parse reasoning" >>
           ELSE reply.reasoning)

\* --rows: a number, or '*'
Star == << >>
RowsArgs == {Star} \cup {<< n >> : n \in 1 .. MaxLimit}

\* df.head(n)
DfHead(rows, num_rows) ==
    IF num_rows = Star
    THEN rows
    ELSE SubSeq(rows, 1, Min(num_rows[1], Len(rows)))

\* df['score'] = 0.0 and df['reasoning'] = '' when the columns are missing
AddScoreColumns(df) ==
    IF "score" \in df.columns
    THEN df
    ELSE Csv(df.columns \cup ScoreColumns,
             [i \in 1 .. Len(df.rows) |->
                [df.rows[i] EXCEPT !.score = Some(0), !.reasoning = << >>]])

\* pd.isna(abstract) or not abstract.strip()
EmptyAbstract(abstract) == abstract \in {"", " "}

\* get_latest_csv: the file of results/ modified last
get_latest_csv ==
    CHOOSE f \in CsvFiles : \A g \in CsvFiles : mtime[g] <= mtime[f]

\* the default output path: the input's name followed by "_evaluated"
OutputPath(csv_path) == csv_path + 1

\* rows of df the loop will send to the completion service
ToEvaluate(rows) == {i \in 1 .. Len(rows) : ~ EmptyAbstract(rows[i].abstract)}

\* main() and evaluate_papers up to the loop: find the latest CSV, read it,
\* keep the first num_rows rows, add the annotation columns
EvalLoad ==
    /\ eproc.pc \in {"idle", "done"}
    /\ \E num_rows \in RowsArgs :
         IF CsvFiles = {}
         THEN eproc' = [eproc EXCEPT !.pc = "done", !.num_rows = num_rows,
                                     !.df = NoCsv, !.calls = << >>]
         ELSE LET csv_path == get_latest_csv
                  read == files[csv_path]
                  df == AddScoreColumns(
                          Csv(read.columns, DfHead(read.rows, num_rows)))
              IN  \* the bounds: file numbers, and completion calls in all
                  /\ OutputPath(csv_path) <= MaxDepth
                  /\ eproc.ncalls + Cardinality(ToEvaluate(df.rows)) <= MaxCalls
                  /\ eproc' = [eproc EXCEPT !.pc = "rows", !.csv_path = csv_path,
                                            !.num_rows = num_rows, !.df = df,
                                            !.idx = 1, !.calls = << >>]
    /\ UNCHANGED << today, last_update_file, files, mtime, sproc,
                    task_status, pending, jobs, response >>

\* evaluate_papers: one turn of the loop over df.iterrows()
EvalRow ==
    /\ eproc.pc = "rows"
    /\ eproc.idx <= Len(eproc.df.rows)
    /\ LET row == eproc.df.rows[eproc.idx]
       IN  IF EmptyAbstract(row.abstract)
           THEN eproc' = [eproc EXCEPT !.idx = @ + 1]
           ELSE \E reply \in Replies :
                  LET result == evaluate_abstract(reply)
                  IN  eproc' = [eproc EXCEPT
                        !.df.rows[eproc.idx].score = Some(result.score),
                        !.df.rows[eproc.idx].reasoning = result.reasoning,
                        !.idx = @ + 1,
                        !.calls = Append(@, [idx |-> eproc.idx, reply |-> reply]),
                        !.ncalls = @ + 1]
    /\ UNCHANGED << today, last_update_file, files, mtime, sproc,
                    task_status, pending, jobs, response >>

\* evaluate_papers: df.to_csv(output_path)
EvalSave ==
    /\ eproc.pc = "rows"
    /\ eproc.idx > Len(eproc.df.rows)
    /\ files' = [files EXCEPT ![OutputPath(eproc.csv_path)] = eproc.df]
    /\ mtime' = [mtime EXCEPT ![OutputPath(eproc.csv_path)] = NewMtime]
    /\ eproc' = [eproc EXCEPT !.pc = "done"]
    /\ UNCHANGED << today, last_update_file, sproc,
                    task_status, pending, jobs, response >>

\* evaluate_papers: df.to_csv(output_path), the file is opened
EvalSaveOpen ==
    /\ eproc.pc = "rows"
    /\ eproc.idx > Len(eproc.df.rows)
    /\ files' = to_csv_open(files, OutputPath(eproc.csv_path))
    /\ mtime' = Touch(OutputPath(eproc.csv_path))
    /\ eproc' = [eproc EXCEPT !.pc = "write"]
    /\ UNCHANGED << today, last_update_file, sproc,
                    task_status, pending, jobs, response >>

\* evaluate_papers: df.to_csv(output_path), the next part of the file
EvalSaveFlush ==
    /\ eproc.pc = "write"
    /\ ~ to_csv_complete(files, OutputPath(eproc.csv_path), eproc.df)
    /\ files' = to_csv_flush(files, OutputPath(eproc.csv_path), eproc.df)
    /\ mtime' = Touch(OutputPath(eproc.csv_path))
    /\ UNCHANGED << today, last_update_file, sproc, eproc,
                    task_status, pending, jobs, response >>

\* evaluate_papers: df.to_csv(output_path) returns
EvalSaveClose ==
    /\ eproc.pc = "write"
    /\ to_csv_complete(files, OutputPath(eproc.csv_path), eproc.df)
    /\ eproc' = [eproc EXCEPT !.pc = "done"]
    /\ UNCHANGED << today, last_update_file, sproc, files, mtime,
                    task_status, pending, jobs, response >>

-----------------------------------------------------------------------------
(* app.py: the query API *)

JobKinds == {"scraper", "evaluator"}

NoResponse == [kind |-> "none"]


\* get_csv_files and load_papers_df: the evaluated file if it exists, else the
\* base file, else the file modified last, else an empty frame
load_papers_df ==
    IF CsvFiles = {}
    THEN NoCsv
    ELSE IF files[EvaluatedFile].exists
    THEN files[EvaluatedFile]
    ELSE IF files[BaseFile].exists
    THEN files[BaseFile]
    ELSE files[get_latest_csv]

\* the pd.read_csv of load_papers_df raises: the handlers do not catch it
\* and the request is answered 500
LoadRaises == EmptyDataError(load_papers_df)

InternalServerError == [kind |-> "error"]

\* str.contains(category) on the tags of the model
Contains(tag, pattern) ==
    \/ tag = pattern
    \/ pattern = "s"
    \/ pattern = "e" /\ tag = "eess"

\* df['score'] >= min_score and df['score'] <= max_score: false on NaN
ScoreAtLeast(row, bound) == row.score # None /\ row.score[1] >= bound
ScoreAtMost(row, bound) == row.score # None /\ row.score[1] <= bound

\* the score filters apply when the bound is given and the frame has the column
ScoreFilterApplies(bound, columns) == bound # None /\ "score" \in columns

\* sort_values(by, ascending, na_position='last'): rows in input order among
\* equal keys
SortKey(row, by) == IF by = "score" THEN row.score ELSE Some(row.created)
Precedes(x, y, ascending) ==
    /\ x # None
    /\ \/ y = None
       \/ ascending /\ x[1] < y[1]
       \/ ~ ascending /\ x[1] > y[1]

RECURSIVE InsertRow(_, _, _, _)
InsertRow(sorted, row, by, ascending) ==
    IF sorted = << >>
    THEN << row >>
    ELSE IF Precedes(SortKey(row, by), SortKey(Head(sorted), by), ascending)
         THEN << row >> \o sorted
         ELSE << Head(sorted) >> \o InsertRow(Tail(sorted), row, by, ascending)

RECURSIVE SortValues(_, _, _)
SortValues(rows, by, ascending) ==
    IF rows = << >>
    THEN << >>
    ELSE InsertRow(SortValues(SubSeq(rows, 1, Len(rows) - 1), by, ascending),
                   rows[Len(rows)], by, ascending)

\* a faulty variant: the last, shorter page is not counted
TotalPagesFloor(total, per_page) == total \div per_page
\* total_pages = (total + per_page - 1) // per_page
TotalPages(total, per_page) == (total + per_page - 1) \div per_page

\* start = (page - 1) * per_page
PageStart(page, per_page) == (page - 1) * per_page

\* df.iloc[start:end]
Iloc(rows, start, end) ==
    IF start >= Len(rows)
    THEN << >>
    ELSE SubSeq(rows, start + 1, Min(end, Len(rows)))

\* Paper(...): the score is None when the frame has no score column or the
\* value is NaN
Paper(row, columns) ==
    [id |-> row.id, categories |-> row.categories, abstract |-> row.abstract,
     created |-> row.created,
     score |-> IF "score" \in columns THEN row.score ELSE None,
     reasoning |-> IF "reasoning" \in columns THEN row.reasoning ELSE << >>]

PapersResponse(q, papers, total, total_pages) ==
    [kind |-> "papers", request |-> q, papers |-> papers, total |-> total,
     page |-> q.page, per_page |-> q.per_page, total_pages |-> total_pages]

\* the rows that match the filters of q, sorted
MatchingRows(q, df) ==
    LET byCategory ==
            IF q.category # None
            THEN SelectSeq(df.rows,
                            LAMBDA r : Contains(r.categories, q.category[1]))
            ELSE df.rows
        byMin ==
            IF ScoreFilterApplies(q.min_score, df.columns)
            THEN SelectSeq(byCategory,
                            LAMBDA r : ScoreAtLeast(r, q.min_score[1]))
            ELSE byCategory
        byMax ==
            IF ScoreFilterApplies(q.max_score, df.columns)
            THEN SelectSeq(byMin, LAMBDA r : ScoreAtMost(r, q.max_score[1]))
            ELSE byMin
    IN  IF q.sort_by \in df.columns
        THEN SortValues(byMax, q.sort_by, q.sort_order = "asc")
        ELSE byMax

\* get_papers; the search filter is left out
get_papers(q) ==
    LET df == load_papers_df
    IN  IF df.rows = << >>
        THEN PapersResponse(q, << >>, 0, 0)
        ELSE LET rows == MatchingRows(q, df)
                 total == Len(rows)
                 start == PageStart(q.page, q.per_page)
                 end == start + q.per_page
                 df_page == Iloc(rows, start, end)
             IN  PapersResponse(
                   q,
                   [i \in 1 .. Len(df_page) |-> Paper(df_page[i], df.columns)],
                   total,
                   TotalPages(total, q.per_page))

-----------------------------------------------------------------------------
(* app.py: background tasks *)

TaskStatus(job, status) == [kind |-> "task", job |-> job, status |-> status]

\* a faulty variant: the status is not looked at
AlreadyRunningNever(kind) == FALSE
\* task_status.get(kind) == "running"
AlreadyRunning(kind) == task_status[kind] = "running"

\* s without its i-th element
RemoveAt(s, i) == SubSeq(s, 1, i - 1) \o SubSeq(s, i + 1, Len(s))

InFlight == Len(pending) + Len(jobs)

JobsOf(kind) == {i \in 1 .. Len(jobs) : jobs[i].kind = kind}
PendingOf(kind) == {i \in 1 .. Len(pending) : pending[i].kind = kind}

\* trigger_scrape and trigger_evaluate: refuse when the status is "running",
\* else add the background task, which begins after the response is sent
Trigger(kind, num_rows) ==
    IF AlreadyRunning(kind)
    THEN /\ response' = TaskStatus(kind, "running")
         /\ UNCHANGED pending
    ELSE /\ pending' = Append(pending, [kind |-> kind, num_rows |-> num_rows])
         /\ response' = TaskStatus(kind, "started")

\* the requests GET /api/papers is sent
ScoreBoundsMin == {None, Some(1), Some(8)}
ScoreBoundsMax == {None, Some(7)}
Requests ==
    [page : 1 .. MaxPage, per_page : 1 .. MaxPerPage,
     category : {None, Some("cs")},
     min_score : ScoreBoundsMin, max_score : ScoreBoundsMax,
     sort_by : {"created", "score"}, sort_order : {"asc", "desc"}]

\* a client sends the next request: it has no response yet
NextRequest ==
    /\ response # NoResponse
    /\ response' = NoResponse
    /\ UNCHANGED << today, last_update_file, files, mtime, sproc, eproc,
                    task_status, pending, jobs >>

\* GET /api/papers
GetPapers ==
    /\ response = NoResponse
    /\ \E q \in Requests :
         response' = IF LoadRaises THEN InternalServerError ELSE get_papers(q)
    /\ UNCHANGED << today, last_update_file, files, mtime, sproc, eproc,
                    task_status, pending, jobs >>

\* the parameters of GET /api/papers when the request names none
DefaultRequest ==
    [page |-> 1, per_page |-> 20, category |-> None,
     min_score |-> None, max_score |-> None,
     sort_by |-> "created", sort_order |-> "desc"]

\* GET /api/papers without parameters
GetPapersDefault ==
    /\ response = NoResponse
    /\ response' = IF LoadRaises THEN InternalServerError
                   ELSE get_papers(DefaultRequest)
    /\ UNCHANGED << today, last_update_file, files, mtime, sproc, eproc,
                    task_status, pending, jobs >>

\* POST /api/scrape
trigger_scrape ==
    /\ response = NoResponse
    /\ AlreadyRunning("scraper") \/ InFlight < MaxJobs
    /\ Trigger("scraper", None)
    /\ UNCHANGED << today, last_update_file, files, mtime, sproc, eproc,
                    task_status, jobs >>

\* POST /api/evaluate?num_rows=n
trigger_evaluate ==
    /\ response = NoResponse
    /\ AlreadyRunning("evaluator") \/ InFlight < MaxJobs
    /\ \E n \in 1 .. MaxLimit : Trigger("evaluator", Some(n))
    /\ UNCHANGED << today, last_update_file, files, mtime, sproc, eproc,
                    task_status, jobs >>

\* run_scraper and run_evaluator up to subprocess.run: a background task that
\* was added begins and sets the status
RunBegin(kind) ==
    /\ \E i \in PendingOf(kind) :
         /\ jobs' = Append(jobs, pending[i])
         /\ pending' = RemoveAt(pending, i)
    /\ task_status' = [task_status EXCEPT ![kind] = "running"]
    /\ UNCHANGED << today, last_update_file, files, mtime, sproc, eproc, response >>

\* run_scraper and run_evaluator from the return of subprocess.run: the child
\* has exited with code 0 ("completed"), with another code ("failed: ..."), or
\* subprocess.run raised, as it does on the timeout ("error: ...").  The child
\* is the process of main.py or evaluator.py; what it does to the results
\* folder is modelled by sproc and eproc.
RunEnd(kind) ==
    /\ \E i \in JobsOf(kind) : jobs' = RemoveAt(jobs, i)
    /\ \E outcome \in {"completed", "failed", "error"} :
         task_status' = [task_status EXCEPT ![kind] = outcome]
    /\ UNCHANGED << today, last_update_file, files, mtime, sproc, eproc,
                    pending, response >>

run_scraper_begin == RunBegin("scraper")
run_scraper_end == RunEnd("scraper")
run_evaluator_begin == RunBegin("evaluator")
run_evaluator_end == RunEnd("evaluator")

\* GET /api/task-status
get_task_status ==
    /\ response = NoResponse
    /\ response' = [kind |-> "status", scraper |-> task_status["scraper"],
                    evaluator |-> task_status["evaluator"]]
    /\ UNCHANGED << today, last_update_file, files, mtime, sproc, eproc,
                    task_status, pending, jobs >>

-----------------------------------------------------------------------------
(* Initial states *)

EprocIdle ==
    [pc |-> "idle", csv_path |-> 0, num_rows |-> None, df |-> NoCsv,
     idx |-> 1, calls |-> << >>, ncalls |-> 0]

AppIdle ==
    /\ task_status = [k \in JobKinds |-> "None"]
    /\ pending = << >>
    /\ jobs = << >>
    /\ response = NoResponse

\* an empty results folder, and any watermark file an earlier run or an
\* operator may have left: none, unreadable, or a date up to tomorrow's
InitIngest ==
    /\ today = Today0
    /\ last_update_file \in
         {NoTextFile, TextFile(Garbage)} \cup
         {TextFile(Iso(d)) : d \in 0 .. Today0 + 1}
    /\ files = [f \in FileNames |-> NoCsv]
    /\ mtime = [f \in FileNames |-> 0]
    /\ sproc = SprocIdle
    /\ eproc = EprocIdle
    /\ AppIdle

NextIngest ==
    \/ MainGetDateRange
    \/ MainScrape
    \/ MainSave
    \/ MainUpdate
    \/ Tick

SpecIngest == InitIngest /\ [][NextIngest]_vars

Abstracts == {"text", ""}

\* the base snapshots an ingestion run can have left: rows without annotation
BaseSnapshots ==
    UNION {
      { Csv(BaseColumns,
            [i \in 1 .. n |->
               PaperRecord(i, CATEGORIES[((i - 1) % Len(CATEGORIES)) + 1],
                           abs[i], Today0)]) :
          abs \in [1 .. n -> Abstracts] } :
      n \in 1 .. MaxPapers }

\* a results folder holding one base snapshot, not yet scored
InitScore ==
    /\ today = Today0
    /\ last_update_file = TextFile(Iso(Today0))
    /\ \E base \in BaseSnapshots :
         files = [f \in FileNames |-> IF f = BaseFile THEN base ELSE NoCsv]
    /\ mtime = [f \in FileNames |-> IF f = BaseFile THEN 1 ELSE 0]
    /\ sproc = SprocIdle
    /\ eproc = EprocIdle
    /\ AppIdle

NextScore ==
    \/ EvalLoad
    \/ EvalRow
    \/ EvalSave

SpecScore == InitScore /\ [][NextScore]_vars

\* the annotation a scoring run leaves on a row
RowAnnotations(row) ==
    IF EmptyAbstract(row.abstract)
    THEN {Annotation(0, << >>)}
    ELSE {evaluate_abstract(r) :
            r \in {ApiError, JsonReply("number", 7, Some("x")),
                   JsonReply("number", 13, Some("x")),
                   JsonReply("absent", 0, Some("x"))}}

\* the enriched snapshots one scoring run on a base snapshot can have left
EnrichedSnapshots(base) ==
    UNION {
      { Csv(BaseColumns \cup ScoreColumns,
            [i \in 1 .. n |->
               [base.rows[i] EXCEPT !.score = Some(ann[i].score),
                                    !.reasoning = ann[i].reasoning]]) :
          ann \in { a \in [1 .. n -> UNION {RowAnnotations(base.rows[i]) : i \in 1 .. n}] :
                      \A i \in 1 .. n : a[i] \in RowAnnotations(base.rows[i]) } } :
      n \in 1 .. Len(base.rows) }

\* the results folders the web backend can find: empty, a base snapshot, or a
\* base snapshot and the enriched snapshot of a scoring run on it
InitQuery ==
    /\ today = Today0
    /\ last_update_file \in {NoTextFile, TextFile(Iso(Today0))}
    /\ \/ /\ files = [f \in FileNames |-> NoCsv]
          /\ mtime = [f \in FileNames |-> 0]
       \/ \E base \in BaseSnapshots :
            \/ /\ files = [f \in FileNames |-> IF f = BaseFile THEN base ELSE NoCsv]
               /\ mtime = [f \in FileNames |-> IF f = BaseFile THEN 1 ELSE 0]
            \/ \E enriched \in EnrichedSnapshots(base) :
                 /\ files = [f \in FileNames |->
                               IF f = BaseFile THEN base
                               ELSE IF f = EvaluatedFile THEN enriched ELSE NoCsv]
                 /\ mtime = [f \in FileNames |->
                               IF f = BaseFile THEN 1
                               ELSE IF f = EvaluatedFile THEN 2 ELSE 0]
    /\ sproc = SprocIdle
    /\ eproc = EprocIdle
    /\ AppIdle

NextQuery ==
    \/ GetPapers
    \/ NextRequest

SpecQuery == InitQuery /\ [][NextQuery]_vars

\* the web backend just started
InitTasks ==
    /\ today = Today0
    /\ last_update_file = NoTextFile
    /\ files = [f \in FileNames |-> NoCsv]
    /\ mtime = [f \in FileNames |-> 0]
    /\ sproc = SprocIdle
    /\ eproc = EprocIdle
    /\ AppIdle

NextTasks ==
    \/ trigger_scrape
    \/ trigger_evaluate
    \/ run_scraper_begin
    \/ run_scraper_end
    \/ run_evaluator_begin
    \/ run_evaluator_end
    \/ get_task_status
    \/ NextRequest

SpecTasks == InitTasks /\ [][NextTasks]_vars

\* The web backend answers queries while main.py runs as a process of its
\* own: the results folder is empty or holds the base snapshot of an
\* ingestion run of the day before.
EarlierSnapshot ==
    Csv(BaseColumns, << PaperRecord(1, CATEGORIES[1], "text", Today0 - 1) >>)

InitServe ==
    /\ today = Today0
    /\ \/ /\ last_update_file = NoTextFile
          /\ files = [f \in FileNames |-> NoCsv]
          /\ mtime = [f \in FileNames |-> 0]
       \/ /\ last_update_file = TextFile(Iso(Today0 - 1))
          /\ files = [f \in FileNames |->
                        IF f = BaseFile THEN EarlierSnapshot ELSE NoCsv]
          /\ mtime = [f \in FileNames |-> IF f = BaseFile THEN 1 ELSE 0]
    /\ sproc = SprocIdle
    /\ eproc = EprocIdle
    /\ AppIdle

NextServe ==
    \/ MainGetDateRange
    \/ MainScrape
    \/ MainSaveOpen
    \/ MainSaveFlush
    \/ MainSaveClose
    \/ MainUpdate
    \/ GetPapersDefault
    \/ NextRequest

SpecServe == InitServe /\ [][NextServe]_vars

\* The web backend answers queries while evaluator.py runs as a process of
\* its own on a base snapshot (InitScore).
NextServeScore ==
    \/ EvalLoad
    \/ EvalRow
    \/ EvalSaveOpen
    \/ EvalSaveFlush
    \/ EvalSaveClose
    \/ GetPapersDefault
    \/ NextRequest

SpecServeScore == InitScore /\ [][NextServeScore]_vars

-----------------------------------------------------------------------------
(* Properties of the ingestion run (SpecIngest) *)

WatermarkReadable == last_update_file.exists /\ last_update_file.text.iso

\* the step that begins a run of main.py
RunBegins == sproc'.runs # sproc.runs

\* C5: every ingestion run fetches the window from = max(watermark, today -
\* MAX_DAYS), until = today, so the window is never longer than MAX_DAYS days;
\* a missing or unreadable watermark gives from = today - MAX_DAYS.
C5_FetchWindow ==
    [][ RunBegins =>
          /\ sproc'.date_until = Iso(today)
          /\ sproc'.date_from.iso
          /\ sproc'.date_from.day =
               ( IF WatermarkReadable
                 THEN CHOOSE d \in {last_update_file.text.day, today - MAX_DAYS} :
                        /\ d >= last_update_file.text.day
                        /\ d >= today - MAX_DAYS
                 ELSE today - MAX_DAYS )
          /\ today - sproc'.date_from.day <= MAX_DAYS ]_vars

\* a run that found the watermark 10 days in the past and fetches 7 days
C5_Witness ==
    /\ sproc.pc = "scrape"
    /\ last_update_file = TextFile(Iso(today - 10))
    /\ sproc.date_from = Iso(today - MAX_DAYS)
    /\ sproc.date_until = Iso(today)

\* the records of the fetches so far that did not fail, in category order
FetchedSoFar ==
    Concat([i \in 1 .. Len(sproc.outcomes) |->
              IF sproc.outcomes[i].raises THEN << >> ELSE sproc.outcomes[i].papers])

\* C6: a failing category fetch never aborts the run: it contributes no
\* records, the remaining categories are fetched, and the finished run has set
\* the watermark to until.
C6_FetchFailureTolerated ==
    /\ sproc.pc # "crashed"
    /\ sproc.all_papers = FetchedSoFar
    /\ sproc.pc \in {"save", "update", "done"} =>
         Len(sproc.outcomes) = Len(CATEGORIES)
    /\ sproc.pc = "done" => last_update_file = TextFile(sproc.date_until)

\* a finished run in which every category fetch failed
C6_Witness ==
    /\ sproc.pc = "done"
    /\ Len(sproc.outcomes) = Len(CATEGORIES)
    /\ \A i \in 1 .. Len(sproc.outcomes) : sproc.outcomes[i].raises
    /\ last_update_file = TextFile(sproc.date_until)

\* the run of main.py has returned from save_results
RunPastSave == sproc.pc \in {"update", "done"}

\* C11 as stated: after every run, also one that fetched nothing, the base
\* snapshot holds exactly the records this run fetched, in category order,
\* and no record of an earlier run (a file that does not exist holds none).
C11_SnapshotSuperseded ==
    RunPastSave => files[BaseFile].rows = FetchedSoFar

\* C11: a run that fetched at least one record leaves a base snapshot that
\* holds exactly the concatenation, in category order, of the records this
\* run fetched and nothing of an earlier run; a run that fetched no record
\* writes nothing, so the results folder stays as the run found it.
C11_SnapshotWrittenUnlessEmpty ==
    [][ RunPastSave' =>
          IF FetchedSoFar' # << >>
          THEN files'[BaseFile] = Csv(BaseColumns, FetchedSoFar')
          ELSE files' = files ]_vars

\* a second run, on a later day, has replaced the snapshot by the record of
\* its third category alone
C11_Witness ==
    /\ sproc.pc = "done"
    /\ sproc.runs = 2
    /\ today > Today0
    /\ Len(sproc.outcomes) = Len(CATEGORIES)
    /\ Len(FetchedSoFar) = 1
    /\ files[BaseFile] = Csv(BaseColumns, FetchedSoFar)
    /\ files[BaseFile].rows[1].categories = CATEGORIES[3]
    /\ files[BaseFile].rows[1].created = today

-----------------------------------------------------------------------------
(* Properties of queries during a job (SpecServe, SpecServeScore) *)

\* the step that answers a query
QueryAnswered == response = NoResponse /\ response' # NoResponse

\* a snapshot generation as a finished write leaves it: the header line and
\* at least one record (save_results writes no file for an empty list, and
\* the scoring job reads at least one record from such a file)
WholeGeneration(file) == file.columns # {} /\ file.rows # << >>

\* C12: in every interleaving of a query with an ingestion or scoring job in
\* flight, the snapshot file the query loads is a complete generation, the
\* prior one or the new one, never a file the job has written in part.
C12_NoPartialRead ==
    [][ QueryAnswered /\ CsvFiles # {} => WholeGeneration(load_papers_df) ]_vars

-----------------------------------------------------------------------------
(* Properties of the query API (SpecQuery) *)

WithinBounds(score, q) ==
    /\ score # None
    /\ q.min_score # None => score[1] >= q.min_score[1]
    /\ q.max_score # None => score[1] <= q.max_score[1]

\* C7: when min_score or max_score is supplied, every returned row has a
\* score, and the score lies within the supplied inclusive bounds.
C7_ScoreBoundsExcludeUnscored ==
    ( /\ response.kind = "papers"
      /\ response.request.min_score # None \/ response.request.max_score # None )
    => \A i \in 1 .. Len(response.papers) :
         WithinBounds(response.papers[i].score, response.request)

\* the least k with k * P >= T
Ceil(T, P) == CHOOSE k \in 0 .. T : k * P >= T /\ \A j \in 0 .. k - 1 : j * P < T

\* the answer to the request of the response, asked for page p
PageOf(p) == get_papers([response.request EXCEPT !.page = p])

\* C8: total_pages = ceil(T / P); pages 1 .. total_pages, one after the other,
\* are the T matching rows in sort order, each page no longer than P; a page
\* past the last is empty and reports the same total.
C8_Pagination ==
    response.kind = "papers" =>
      LET q == response.request
          T == response.total
          df == load_papers_df
          matching == IF df.rows = << >> THEN << >> ELSE MatchingRows(q, df)
      IN  /\ T = Len(matching)
          /\ response.total_pages = Ceil(T, q.per_page)
          /\ Concat([p \in 1 .. response.total_pages |-> PageOf(p).papers])
               = [i \in 1 .. T |-> Paper(matching[i], df.columns)]
          /\ \A p \in 1 .. response.total_pages :
               /\ Len(PageOf(p).papers) <= q.per_page
               /\ Len(PageOf(p).papers) >= 1
          /\ \A p \in response.total_pages + 1 .. response.total_pages + 2 :
               /\ PageOf(p).papers = << >>
               /\ PageOf(p).total = T
               /\ PageOf(p).total_pages = response.total_pages
          /\ response.papers = PageOf(q.page).papers

\* page total_pages + 1 of two matching rows, one row a page, was requested
C8_Witness ==
    /\ response.kind = "papers"
    /\ response.total = 2
    /\ response.per_page = 1
    /\ response.total_pages = 2
    /\ response.page = response.total_pages + 1
    /\ response.papers = << >>

-----------------------------------------------------------------------------
(* Properties of the background tasks (SpecTasks) *)

\* C4 as claimed: at most one job of each kind is executing at any time.
C4_AtMostOneJobPerKind ==
    \A kind \in JobKinds : Cardinality(JobsOf(kind)) <= 1

\* the jobs of a kind have not raced: at most one is added or executing, and
\* while it executes the status is "running"
Orderly(kind) ==
    /\ Cardinality(PendingOf(kind)) + Cardinality(JobsOf(kind)) <= 1
    /\ JobsOf(kind) # {} => task_status[kind] = "running"

\* a start request is accepted while an accepted job has yet to begin
AcceptedInWindow(kind) ==
    /\ PendingOf(kind) # {}
    /\ Cardinality(PendingOf(kind))' > Cardinality(PendingOf(kind))

\* C4 as amended: while the status of a kind is "running", a start request of
\* that kind is answered "running" (already running) and adds no background
\* task; and at most one job of a kind is added or executing for as long as no
\* start request is accepted in the window between the acceptance of a job
\* and its beginning, where the status is not yet "running".
C4_RunningRejectsStart ==
    [][ \A kind \in JobKinds :
          /\ task_status[kind] = "running" =>
               /\ Cardinality(PendingOf(kind))' <= Cardinality(PendingOf(kind))
               /\ ( /\ response' # response
                    /\ response'.kind = "task"
                    /\ response'.job = kind )
                  => response' = TaskStatus(kind, "running")
          /\ (Orderly(kind) /\ ~ AcceptedInWindow(kind)) => Orderly(kind)' ]_vars

\* a start request was answered "running" while a job of its kind executes
C4_Witness ==
    /\ response = TaskStatus("scraper", "running")
    /\ task_status["scraper"] = "running"
    /\ Cardinality(JobsOf("scraper")) = 1
    /\ pending = << >>

-----------------------------------------------------------------------------
(* Properties of the scoring run (SpecScore) *)

\* a scoring run has written its output
RunSaved == eproc.pc = "done" /\ eproc.df.exists
RunInput == files[eproc.csv_path]
RunOutput == files[OutputPath(eproc.csv_path)]
RunLimit == IF eproc.num_rows = Star THEN Len(RunInput.rows) ELSE eproc.num_rows[1]

InRange(score) == score # None /\ 1 <= score[1] /\ score[1] <= 10

\* row i of a file lacks a score: no score column, no value, or a value <= 0
Unscored(file, i) ==
    \/ "score" \notin file.columns
    \/ file.rows[i].score = None
    \/ file.rows[i].score[1] <= 0

UnscoredRows(file) == {i \in 1 .. Len(file.rows) : Unscored(file, i)}

\* the first k elements of a set of row numbers
FirstOf(S, k) == {i \in S : Cardinality({j \in S : j < i}) < k}

\* the reply carries a score in [1, 10]
ValidReply(reply) ==
    /\ reply.kind \in {"json", "text"}
    /\ reply.kind = "json" => reply.object
    /\ reply.score_key = "number"
    /\ 1 <= reply.score_val /\ reply.score_val <= 10

\* the reply yields no score
NoScoreReply(reply) ==
    \/ reply.kind = "text" /\ reply.score_key = "absent"
    \/ reply.kind = "json" /\ reply.object /\ reply.score_key = "absent"

WithoutAnnotation(row) == [row EXCEPT !.score = None, !.reasoning = << >>]

\* C1: with every abstract non-empty and every reply valid, a scoring run
\* scores exactly the first min(limit, U) of the U unscored papers of the
\* snapshot it read and leaves every other paper's annotation untouched, so
\* that U - min(limit, U) papers stay unscored.
C1_ScoresFirstUnscored ==
    ( /\ RunSaved
      /\ \A i \in 1 .. Len(RunInput.rows) : ~ EmptyAbstract(RunInput.rows[i].abstract)
      /\ \A c \in 1 .. Len(eproc.calls) : ValidReply(eproc.calls[c].reply) )
    => LET U == UnscoredRows(RunInput)
           k == Min(RunLimit, Cardinality(U))
           chosen == FirstOf(U, k)
       IN  /\ Len(RunOutput.rows) = Len(RunInput.rows)
           /\ \A i \in chosen : InRange(RunOutput.rows[i].score)
           /\ \A i \in (1 .. Len(RunInput.rows)) \ chosen :
                IF "score" \in RunInput.columns
                THEN /\ RunOutput.rows[i].score = RunInput.rows[i].score
                     /\ RunOutput.rows[i].reasoning = RunInput.rows[i].reasoning
                ELSE Unscored(RunOutput, i)
           /\ Cardinality(UnscoredRows(RunOutput)) = Cardinality(U) - k

\* C2: every score stored in a snapshot, and every score the running scoring
\* process holds, is 0 or lies in [1, 10], whatever the completion service
\* replied.
C2_ScoreRange ==
    /\ \A f \in CsvFiles :
         "score" \in files[f].columns =>
           \A i \in 1 .. Len(files[f].rows) :
             files[f].rows[i].score = Some(0) \/ InRange(files[f].rows[i].score)
    /\ \A i \in 1 .. Len(eproc.df.rows) :
         eproc.df.rows[i].score = Some(0) \/ InRange(eproc.df.rows[i].score)

\* a saved snapshot holds the score 10 for a reply of 13 and the score 0 for
\* a failed completion call
C2_Witness ==
    /\ RunSaved
    /\ \E c \in 1 .. Len(eproc.calls) :
         /\ eproc.calls[c].reply.score_val = 13
         /\ RunOutput.rows[eproc.calls[c].idx].score = Some(10)
    /\ \E c \in 1 .. Len(eproc.calls) :
         /\ eproc.calls[c].reply.kind = "error"
         /\ RunOutput.rows[eproc.calls[c].idx].score = Some(0)

\* C3: a scoring run on a snapshot in which every paper has a score in
\* [1, 10] makes no completion call and writes every row as it read it.
C3_IdempotentOnScored ==
    ( /\ RunSaved
      /\ "score" \in RunInput.columns
      /\ \A i \in 1 .. Len(RunInput.rows) : InRange(RunInput.rows[i].score) )
    => /\ eproc.calls = << >>
       /\ \A i \in 1 .. Len(RunOutput.rows) : RunOutput.rows[i] = RunInput.rows[i]

\* C9: the snapshot a scoring run writes holds every record of the snapshot
\* it read, in the same order, unchanged but for score and reasoning.
C9_KeepsEveryRecord ==
    RunSaved =>
      /\ Len(RunOutput.rows) = Len(RunInput.rows)
      /\ \A i \in 1 .. Len(RunOutput.rows) :
           WithoutAnnotation(RunOutput.rows[i]) = WithoutAnnotation(RunInput.rows[i])

\* C10: a reply that yields no score is stored as the score 0.
C10_NoScoreStoredAsZero ==
    \A c \in 1 .. Len(eproc.calls) :
      NoScoreReply(eproc.calls[c].reply) =>
        eproc.df.rows[eproc.calls[c].idx].score = Some(0)

=============================================================================
